---- MODULE Spec2Model ----
(***************************************************************************)
(* The x402 generation scripts of clawdvine-skill:                         *)
(*   scripts/x402-generate.mjs  pay, submit a video job, poll its status   *)
(*   scripts/x402-image.mjs     pay, request an image, print the result    *)
(* One run of one script is one behaviour.  The remote service, the        *)
(* payment SDKs and the module loader are the environment: what they       *)
(* answer is chosen with \E from the sets below.                           *)
(***************************************************************************)
EXTENDS Integers, Sequences, FiniteSets, TLC

VARIABLES
    script,           \* which script runs: "generate" or "image"
    prompt,           \* process.argv[2], "" when missing
    model,            \* process.argv[3] || 'xai-grok-imagine' (sequence of characters)
    evmKey,           \* process.env.EVM_PRIVATE_KEY is set
    solanaKey,        \* process.env.SOLANA_PRIVATE_KEY is set
    fetchWithPayment, \* the payment-capable request function is defined
    paymentNetwork,   \* 'unknown' | 'solana' | 'base'
    pc,               \* position in the script
    res,              \* response of the creation / mcp POST
    taskId,           \* const taskId = body.taskId
    pollIntervalMs,   \* polling policy, 0 before it is chosen
    maxPolls,
    timeoutLabel,
    i,                \* loop counter of the poll loop
    status,           \* const status = await poll.json() of the latest iteration
    exitCode,         \* process exit code, -1 while running
    outcome,          \* which report the run ended with
    errText,          \* text written to stderr by the final report
    queuedExplorer,   \* "Payment:" explorer line printed after submission
    reportVideo,      \* "Video:" line of the success report
    reportExplorer,   \* "TX:" explorer line of the success report
    paidCalls,        \* calls made through fetchWithPayment
    polls,            \* plain fetch() GETs of the status endpoint
    sleeps,           \* setTimeout sleeps awaited
    sleptMs           \* total milliseconds slept

vars == <<script, prompt, model, evmKey, solanaKey, fetchWithPayment, paymentNetwork,
          pc, res, taskId, pollIntervalMs, maxPolls, timeoutLabel, i, status,
          exitCode, outcome, errText, queuedExplorer, reportVideo, reportExplorer,
          paidCalls, polls, sleeps, sleptMs>>

(***************************************************************************)
(* Strings that the code inspects character by character are sequences of  *)
(* one-character strings.                                                  *)
(***************************************************************************)
Rep(c, n) == [k \in 1..n |-> c]

\* String.prototype.startsWith
StartsWith(s, p) == Len(p) <= Len(s) /\ SubSeq(s, 1, Len(p)) = p

\* String.prototype.includes
Includes(s, sub) ==
    \E k \in 0..(Len(s) - Len(sub)) : SubSeq(s, k + 1, k + Len(sub)) = sub

\* the character class [1-9A-HJ-NP-Za-km-z]
Base58Alphabet ==
    {"1", "2", "3", "4", "5", "6", "7", "8", "9",
     "A", "B", "C", "D", "E", "F", "G", "H", "J", "K", "L", "M", "N",
     "P", "Q", "R", "S", "T", "U", "V", "W", "X", "Y", "Z",
     "a", "b", "c", "d", "e", "f", "g", "h", "i", "j", "k",
     "m", "n", "o", "p", "q", "r", "s", "t", "u", "v", "w", "x", "y", "z"}

SigMinLen == 80
SigMaxLen == 90

\* /^[1-9A-HJ-NP-Za-km-z]{80,90}$/.test(tx)
LooksLikeSolanaSig(tx) ==
    /\ Len(tx) >= SigMinLen
    /\ Len(tx) <= SigMaxLen
    /\ \A k \in 1..Len(tx) : tx[k] \in Base58Alphabet

\* a value of a JSON field that is missing (undefined)
NoField == "<undefined>"

\* JavaScript truthiness of an optional string field
Truthy(s) == s # NoField /\ s # ""

\* an explorer line: a fixed text followed by the transaction reference
NoLine == [base |-> "", tx |-> <<>>]
Solscan(tx) == [base |-> "https://solscan.io/tx/", tx |-> tx]
Basescan(tx) == [base |-> "https://basescan.org/tx/", tx |-> tx]
Verbatim(s) == [base |-> s, tx |-> <<>>]

\* mutant: the declared network decides alone, the pattern is not consulted
ExplorerFor_NetworkWins(explorer, network, tx) ==
    IF Truthy(explorer) THEN Verbatim(explorer)
    ELSE IF network = "solana" THEN Solscan(tx)
    ELSE Basescan(tx)

\* explorer || (paymentNetwork === 'solana' || /.../.test(tx) ? solscan : basescan)
ExplorerFor(explorer, network, tx) ==
    IF Truthy(explorer) THEN Verbatim(explorer)
    ELSE IF network = "solana" \/ LooksLikeSolanaSig(tx) THEN Solscan(tx)
    ELSE Basescan(tx)

\* the line printed under `if (x.txHash)`: nothing for a missing or empty hash
ExplorerLine(explorer, network, tx) ==
    IF tx = <<>> THEN NoLine ELSE ExplorerFor(explorer, network, tx)

(***************************************************************************)
(* Polling policy.                                                         *)
(***************************************************************************)
FalKlingO3 == <<"f", "a", "l", "-", "k", "l", "i", "n", "g", "-", "o", "3">>
Kling == <<"k", "l", "i", "n", "g">>

SLOW_MODELS == {FalKlingO3}

\* mutant: only a model that is exactly a list entry is slow
isSlowModel_ExactMatch(mdl) == \E m \in SLOW_MODELS : mdl = m

\* SLOW_MODELS.some(m => model.startsWith(m) || model.includes('kling'))
isSlowModel(mdl) == \E m \in SLOW_MODELS : StartsWith(mdl, m) \/ Includes(mdl, Kling)

SlowIntervalMs == 10000
FastIntervalMs == 5000
SlowMaxPolls == 120
FastMaxPolls == 120

PollIntervalFor(mdl) == IF isSlowModel(mdl) THEN SlowIntervalMs ELSE FastIntervalMs
MaxPollsFor(mdl) == IF isSlowModel(mdl) THEN SlowMaxPolls ELSE FastMaxPolls
TimeoutLabelFor(mdl) == IF isSlowModel(mdl) THEN "20 minutes" ELSE "10 minutes"

(***************************************************************************)
(* Inputs of a run and answers of the environment.                         *)
(***************************************************************************)
XaiGrokImagine ==
    <<"x", "a", "i", "-", "g", "r", "o", "k", "-", "i", "m", "a", "g", "i", "n", "e">>
KlingV2 == <<"k", "l", "i", "n", "g", "-", "v", "2">>
FalKlingO3Pro == FalKlingO3 \o <<"-", "p", "r", "o">>

\* model identifiers a caller may pass
Models == {XaiGrokImagine, FalKlingO3, FalKlingO3Pro, KlingV2}

Prompts == {"", "A sunset over mountains"}

\* transaction references the service may report
EvmHash == <<"0", "x">> \o Rep("a", 64)
Sig80 == Rep("5", 80)
Sig90 == Rep("J", 90)
B58x79 == Rep("5", 79)
B58x91 == Rep("z", 91)
NonB58x85 == Rep("5", 84) \o <<"l">>
TxRefs == {EvmHash, Sig80, Sig90, B58x79, B58x91, NonB58x85}

CustomExplorer == "https://explorer.example/tx/abc"

\* an HTTP response: how its body decodes, and the fields the scripts read
Resp(kind, code, id, tx, explorer, content) ==
    [kind |-> kind, code |-> code, taskId |-> id, tx |-> tx, explorer |-> explorer,
     content |-> content]
NoRes == Resp("none", 0, NoField, <<>>, NoField, FALSE)

\* responses of POST /generation/create
CreateResponses ==
    {Resp("json", 202, "task-1", <<>>, NoField, FALSE),
     Resp("json", 202, "task-1", EvmHash, CustomExplorer, FALSE),
     Resp("json", 202, "task-1", Sig80, "", FALSE),
     Resp("json", 202, "", EvmHash, NoField, FALSE),
     Resp("json", 202, NoField, <<>>, NoField, FALSE),
     Resp("json", 200, "task-1", EvmHash, NoField, FALSE),
     Resp("json", 402, NoField, <<>>, NoField, FALSE),
     Resp("json", 500, "task-1", <<>>, NoField, FALSE),
     Resp("null", 202, NoField, <<>>, NoField, FALSE),
     Resp("null", 500, NoField, <<>>, NoField, FALSE),
     Resp("nonjson", 202, NoField, <<>>, NoField, FALSE),
     Resp("nonjson", 502, NoField, <<>>, NoField, FALSE)}
    \cup {Resp("json", 202, "task-1", tx, NoField, FALSE) : tx \in TxRefs}

\* responses of POST /mcp (content: the body carries result.content)
ImageResponses ==
    {Resp("json", 200, NoField, <<>>, NoField, TRUE),
     Resp("json", 200, NoField, <<>>, NoField, FALSE),
     Resp("json", 402, NoField, <<>>, NoField, FALSE),
     Resp("json", 500, NoField, <<>>, NoField, FALSE),
     Resp("null", 200, NoField, <<>>, NoField, FALSE),
     Resp("nonjson", 502, NoField, <<>>, NoField, FALSE)}

\* a decoded status body: the fields the poll loop reads
Poll(kind, st, hasResult, video, tx, explorer, error) ==
    [kind |-> kind, status |-> st, hasResult |-> hasResult, video |-> video,
     tx |-> tx, explorer |-> explorer, error |-> error]
NoStatus == Poll("none", NoField, FALSE, NoField, <<>>, NoField, NoField)
InProgress(st) == Poll("json", st, FALSE, NoField, <<>>, NoField, NoField)

\* responses of GET /generation/:taskId/status
PollResponses ==
    {InProgress("queued"), InProgress("running"), InProgress("processing"),
     InProgress(NoField),
     Poll("json", "completed", TRUE, "https://x/video.mp4", <<>>, NoField, NoField),
     Poll("json", "completed", FALSE, NoField, <<>>, NoField, NoField),
     Poll("json", "completed", TRUE, "https://x/video.mp4", Sig90, CustomExplorer, NoField),
     Poll("json", "failed", FALSE, NoField, <<>>, NoField, "content policy violation"),
     Poll("json", "failed", FALSE, NoField, <<>>, NoField, "GPU out of memory"),
     Poll("json", "failed", FALSE, NoField, <<>>, NoField, NoField),
     Poll("null", NoField, FALSE, NoField, <<>>, NoField, NoField),
     Poll("nonjson", NoField, FALSE, NoField, <<>>, NoField, NoField),
     Poll("throw", NoField, FALSE, NoField, <<>>, NoField, NoField)}
    \cup {Poll("json", "completed", TRUE, "https://y/clip.mp4", tx, NoField, NoField) :
            tx \in TxRefs}

Init ==
    /\ script \in {"generate", "image"}
    /\ prompt \in Prompts
    /\ model \in (IF script = "generate" THEN Models ELSE {<<>>})
    /\ evmKey \in BOOLEAN
    /\ solanaKey \in BOOLEAN
    /\ fetchWithPayment = FALSE
    /\ paymentNetwork = "unknown"
    /\ pc = "args"
    /\ res = NoRes
    /\ taskId = NoField
    /\ pollIntervalMs = 0
    /\ maxPolls = 0
    /\ timeoutLabel = ""
    /\ i = 0
    /\ status = NoStatus
    /\ exitCode = -1
    /\ outcome = "running"
    /\ errText = ""
    /\ queuedExplorer = NoLine
    /\ reportVideo = ""
    /\ reportExplorer = NoLine
    /\ paidCalls = 0
    /\ polls = 0
    /\ sleeps = 0
    /\ sleptMs = 0

(***************************************************************************)
(* process.exit(code) after the final report, and the end of a script by   *)
(* an uncaught exception (node prints the error and exits with code 1).    *)
(***************************************************************************)
Exit(code, out, text) ==
    /\ pc' = "exited"
    /\ exitCode' = code
    /\ outcome' = out
    /\ errText' = text

Uncaught(text) == Exit(1, "uncaught", text)

(***************************************************************************)
(* Arguments, credentials and the payment client.  Both scripts run the    *)
(* same steps; s names the script.                                         *)
(***************************************************************************)
\* mutant: the prompt is never checked
CheckArgsOf_NoCheck(s) ==
    /\ pc = "args" /\ script = s
    /\ pc' = "keys"
    /\ UNCHANGED <<script, prompt, model, evmKey, solanaKey, fetchWithPayment,
                   paymentNetwork, res, taskId, pollIntervalMs, maxPolls, timeoutLabel,
                   i, status, exitCode, outcome, errText, queuedExplorer, reportVideo,
                   reportExplorer, paidCalls, polls, sleeps, sleptMs>>

\* if (!prompt) { console.error('Usage: ...'); process.exit(1); }
CheckArgsOf(s) ==
    /\ pc = "args" /\ script = s
    /\ IF prompt = ""
       THEN Exit(1, "usage", "Usage: ...")
       ELSE pc' = "keys" /\ UNCHANGED <<exitCode, outcome, errText>>
    /\ UNCHANGED <<script, prompt, model, evmKey, solanaKey, fetchWithPayment,
                   paymentNetwork, res, taskId, pollIntervalMs, maxPolls, timeoutLabel,
                   i, status, queuedExplorer, reportVideo, reportExplorer, paidCalls,
                   polls, sleeps, sleptMs>>

\* if (!evmKey && !solanaKey) { console.error(...); process.exit(1); }
CheckKeysOf(s) ==
    /\ pc = "keys" /\ script = s
    /\ IF ~evmKey /\ ~solanaKey
       THEN Exit(1, "no-key", "Error: Set EVM_PRIVATE_KEY (Base) or SOLANA_PRIVATE_KEY (Solana)")
       ELSE pc' = "dexter" /\ UNCHANGED <<exitCode, outcome, errText>>
    /\ UNCHANGED <<script, prompt, model, evmKey, solanaKey, fetchWithPayment,
                   paymentNetwork, res, taskId, pollIntervalMs, maxPolls, timeoutLabel,
                   i, status, queuedExplorer, reportVideo, reportExplorer, paidCalls,
                   polls, sleeps, sleptMs>>

\* if (solanaKey) { try { import('@dexterai/x402/client') ... } catch { warn } }
SetupDexterOf(s) ==
    /\ pc = "dexter" /\ script = s
    /\ \E available \in BOOLEAN :
          IF solanaKey /\ available
          THEN fetchWithPayment' = TRUE /\ paymentNetwork' = "solana"
          ELSE UNCHANGED <<fetchWithPayment, paymentNetwork>>
    /\ pc' = "evm"
    /\ UNCHANGED <<script, prompt, model, evmKey, solanaKey, res, taskId,
                   pollIntervalMs, maxPolls, timeoutLabel, i, status, exitCode, outcome,
                   errText, queuedExplorer, reportVideo, reportExplorer, paidCalls,
                   polls, sleeps, sleptMs>>

\* if (!fetchWithPayment && evmKey) { try { @x402/fetch } catch { try { x402-fetch }
\*   catch { console.error(...); process.exit(1); } } }
SetupEvmOf(s) ==
    /\ pc = "evm" /\ script = s
    /\ IF ~fetchWithPayment /\ evmKey
       THEN \E x402 \in BOOLEAN, legacy \in BOOLEAN :
               IF x402 \/ legacy
               THEN /\ fetchWithPayment' = TRUE
                    /\ paymentNetwork' = "base"
                    /\ pc' = "client"
                    /\ UNCHANGED <<exitCode, outcome, errText>>
               ELSE /\ Exit(1, "no-client-init", "Error: Could not initialize payment client.")
                    /\ UNCHANGED <<fetchWithPayment, paymentNetwork>>
       ELSE /\ pc' = "client"
            /\ UNCHANGED <<fetchWithPayment, paymentNetwork, exitCode, outcome, errText>>
    /\ UNCHANGED <<script, prompt, model, evmKey, solanaKey, res, taskId,
                   pollIntervalMs, maxPolls, timeoutLabel, i, status, queuedExplorer,
                   reportVideo, reportExplorer, paidCalls, polls, sleeps, sleptMs>>

\* if (!fetchWithPayment) { console.error(...); process.exit(1); }
CheckClientOf(s) ==
    /\ pc = "client" /\ script = s
    /\ IF ~fetchWithPayment
       THEN Exit(1, "no-client", "Error: No payment client initialized")
       ELSE pc' = "submit" /\ UNCHANGED <<exitCode, outcome, errText>>
    /\ UNCHANGED <<script, prompt, model, evmKey, solanaKey, fetchWithPayment,
                   paymentNetwork, res, taskId, pollIntervalMs, maxPolls, timeoutLabel,
                   i, status, queuedExplorer, reportVideo, reportExplorer, paidCalls,
                   polls, sleeps, sleptMs>>

CheckArgs == CheckArgsOf("generate")
CheckKeys == CheckKeysOf("generate")
SetupDexter == SetupDexterOf("generate")
SetupEvm == SetupEvmOf("generate")
CheckClient == CheckClientOf("generate")

ImageCheckArgs == CheckArgsOf("image")
ImageCheckKeys == CheckKeysOf("image")
ImageSetupDexter == SetupDexterOf("image")
ImageSetupEvm == SetupEvmOf("image")
ImageCheckClient == CheckClientOf("image")

(***************************************************************************)
(* x402-generate.mjs: submission.                                          *)
(***************************************************************************)
\* const res = await fetchWithPayment(`${API_BASE}/generation/create`, {method: 'POST', ...})
Submit ==
    /\ pc = "submit" /\ script = "generate"
    /\ paidCalls' = paidCalls + 1
    /\ \E r \in CreateResponses : res' = r
    /\ pc' = "created"
    /\ UNCHANGED <<script, prompt, model, evmKey, solanaKey, fetchWithPayment,
                   paymentNetwork, taskId, pollIntervalMs, maxPolls, timeoutLabel, i,
                   status, exitCode, outcome, errText, queuedExplorer, reportVideo,
                   reportExplorer, polls, sleeps, sleptMs>>

\* the same call, rejecting with a transport error
SubmitThrows ==
    /\ pc = "submit" /\ script = "generate"
    /\ paidCalls' = paidCalls + 1
    /\ Uncaught("fetch failed")
    /\ UNCHANGED <<script, prompt, model, evmKey, solanaKey, fetchWithPayment,
                   paymentNetwork, res, taskId, pollIntervalMs, maxPolls, timeoutLabel,
                   i, status, queuedExplorer, reportVideo, reportExplorer, polls,
                   sleeps, sleptMs>>

\* await res.json() rejects on a non-JSON body; body.taskId throws on a null body
\* (reached only when res.status === 202, by the short circuit of ||)
BodyThrows(r) == r.kind = "nonjson" \/ (r.kind = "null" /\ r.code = 202)

\* mutant: the task identifier is not checked
SubmissionOk_StatusOnly(r) == r.code = 202

\* the negation of (res.status !== 202 || !body.taskId)
SubmissionOk(r) == r.code = 202 /\ Truthy(r.taskId)

SubmissionDecodeFails ==
    /\ pc = "created" /\ script = "generate"
    /\ BodyThrows(res)
    /\ Uncaught("Unexpected token / TypeError")
    /\ UNCHANGED <<script, prompt, model, evmKey, solanaKey, fetchWithPayment,
                   paymentNetwork, res, taskId, pollIntervalMs, maxPolls, timeoutLabel,
                   i, status, queuedExplorer, reportVideo, reportExplorer, paidCalls,
                   polls, sleeps, sleptMs>>

\* if (res.status !== 202 || !body.taskId) { console.error('Generation failed:', ...);
\*   process.exit(1); }
SubmissionRejected ==
    /\ pc = "created" /\ script = "generate"
    /\ ~BodyThrows(res)
    /\ ~SubmissionOk(res)
    /\ Exit(1, "submission-failed", "Generation failed:")
    /\ UNCHANGED <<script, prompt, model, evmKey, solanaKey, fetchWithPayment,
                   paymentNetwork, res, taskId, pollIntervalMs, maxPolls, timeoutLabel,
                   i, status, queuedExplorer, reportVideo, reportExplorer, paidCalls,
                   polls, sleeps, sleptMs>>

\* console.log(`Queued: ...`); the payment explorer line; the polling policy;
\* const taskId = body.taskId; the loop starts with i = 0
SubmissionAccepted ==
    /\ pc = "created" /\ script = "generate"
    /\ ~BodyThrows(res)
    /\ SubmissionOk(res)
    /\ queuedExplorer' = ExplorerLine(res.explorer, paymentNetwork, res.tx)
    /\ pollIntervalMs' = PollIntervalFor(model)
    /\ maxPolls' = MaxPollsFor(model)
    /\ timeoutLabel' = TimeoutLabelFor(model)
    /\ taskId' = res.taskId
    /\ i' = 0
    /\ pc' = "loop"
    /\ UNCHANGED <<script, prompt, model, evmKey, solanaKey, fetchWithPayment,
                   paymentNetwork, res, status, exitCode, outcome, errText, reportVideo,
                   reportExplorer, paidCalls, polls, sleeps, sleptMs>>

(***************************************************************************)
(* x402-generate.mjs: the poll loop.                                       *)
(***************************************************************************)
\* mutant: the loop bound is off by one (i <= maxPolls)
PollSleep_OffByOne ==
    /\ pc = "loop"
    /\ i <= maxPolls
    /\ sleeps' = sleeps + 1
    /\ sleptMs' = sleptMs + pollIntervalMs
    /\ pc' = "get"
    /\ UNCHANGED <<script, prompt, model, evmKey, solanaKey, fetchWithPayment,
                   paymentNetwork, res, taskId, pollIntervalMs, maxPolls, timeoutLabel,
                   i, status, exitCode, outcome, errText, queuedExplorer, reportVideo,
                   reportExplorer, paidCalls, polls>>

\* for (...; i < maxPolls; ...) { await new Promise(r => setTimeout(r, pollIntervalMs));
PollSleep ==
    /\ pc = "loop"
    /\ i < maxPolls
    /\ sleeps' = sleeps + 1
    /\ sleptMs' = sleptMs + pollIntervalMs
    /\ pc' = "get"
    /\ UNCHANGED <<script, prompt, model, evmKey, solanaKey, fetchWithPayment,
                   paymentNetwork, res, taskId, pollIntervalMs, maxPolls, timeoutLabel,
                   i, status, exitCode, outcome, errText, queuedExplorer, reportVideo,
                   reportExplorer, paidCalls, polls>>

\* mutant: the status read goes through the payment-capable function
StatusGet_Paid ==
    /\ pc = "get"
    /\ polls' = polls + 1
    /\ paidCalls' = paidCalls + 1

\* const poll = await fetch(`${API_BASE}/generation/${taskId}/status`): a plain GET
StatusGet ==
    /\ pc = "get"
    /\ polls' = polls + 1
    /\ UNCHANGED paidCalls

\* fetch() rejects, poll.json() rejects, or status.metadata throws on a null body
PollThrows ==
    /\ StatusGet
    /\ \E r \in PollResponses : r.kind \in {"throw", "nonjson", "null"}
    /\ status' = NoStatus
    /\ Uncaught("fetch failed / Unexpected token / TypeError")
    /\ UNCHANGED <<script, prompt, model, evmKey, solanaKey, fetchWithPayment,
                   paymentNetwork, res, taskId, pollIntervalMs, maxPolls, timeoutLabel,
                   i, queuedExplorer, reportVideo, reportExplorer, sleeps, sleptMs>>

\* const video = status.result?.generation?.video, printed as `Video: ${video}`
VideoOf(r) == IF r.hasResult THEN r.video ELSE "undefined"

\* `${status.error}`
ErrorOf(r) == IF r.error = NoField THEN "undefined" ELSE r.error

\* mutant: a completed status is reported but the loop goes on
PollCompleted_Continues ==
    /\ StatusGet
    /\ \E r \in PollResponses :
          /\ r.kind = "json"
          /\ r.status = "completed"
          /\ status' = r
          /\ reportVideo' = VideoOf(r)
          /\ reportExplorer' = ExplorerLine(r.explorer, paymentNetwork, r.tx)
    /\ i' = i + 1
    /\ pc' = "loop"
    /\ UNCHANGED <<script, prompt, model, evmKey, solanaKey, fetchWithPayment,
                   paymentNetwork, res, taskId, pollIntervalMs, maxPolls, timeoutLabel,
                   exitCode, outcome, errText, queuedExplorer, sleeps, sleptMs>>

\* if (status.status === 'completed') { ...report...; process.exit(0); }
PollCompleted ==
    /\ StatusGet
    /\ \E r \in PollResponses :
          /\ r.kind = "json"
          /\ r.status = "completed"
          /\ status' = r
          /\ reportVideo' = VideoOf(r)
          /\ reportExplorer' = ExplorerLine(r.explorer, paymentNetwork, r.tx)
    /\ Exit(0, "completed", "")
    /\ UNCHANGED <<script, prompt, model, evmKey, solanaKey, fetchWithPayment,
                   paymentNetwork, res, taskId, pollIntervalMs, maxPolls, timeoutLabel,
                   i, queuedExplorer, sleeps, sleptMs>>

\* mutant: a failed status is retried like a status in progress
PollFailed_Retries ==
    /\ StatusGet
    /\ \E r \in PollResponses :
          /\ r.kind = "json"
          /\ r.status = "failed"
          /\ status' = r
    /\ i' = i + 1
    /\ pc' = "loop"
    /\ UNCHANGED <<script, prompt, model, evmKey, solanaKey, fetchWithPayment,
                   paymentNetwork, res, taskId, pollIntervalMs, maxPolls, timeoutLabel,
                   exitCode, outcome, errText, queuedExplorer, reportVideo,
                   reportExplorer, sleeps, sleptMs>>

\* if (status.status === 'failed') { console.error(`Failed after ...: ${status.error}`);
\*   process.exit(1); }
PollFailed ==
    /\ StatusGet
    /\ \E r \in PollResponses :
          /\ r.kind = "json"
          /\ r.status = "failed"
          /\ status' = r
          /\ Exit(1, "failed", ErrorOf(r))
    /\ UNCHANGED <<script, prompt, model, evmKey, solanaKey, fetchWithPayment,
                   paymentNetwork, res, taskId, pollIntervalMs, maxPolls, timeoutLabel,
                   i, queuedExplorer, reportVideo, reportExplorer, sleeps, sleptMs>>

\* mutant: the loop counter is not advanced
PollProgress_NoIncrement ==
    /\ StatusGet
    /\ \E r \in PollResponses :
          /\ r.kind = "json"
          /\ r.status \notin {"completed", "failed"}
          /\ status' = r
    /\ pc' = "loop"
    /\ UNCHANGED <<script, prompt, model, evmKey, solanaKey, fetchWithPayment,
                   paymentNetwork, res, taskId, pollIntervalMs, maxPolls, timeoutLabel,
                   i, exitCode, outcome, errText, queuedExplorer, reportVideo,
                   reportExplorer, sleeps, sleptMs>>

\* any other status: process.stdout.write(progress); i++
PollProgress ==
    /\ StatusGet
    /\ \E r \in PollResponses :
          /\ r.kind = "json"
          /\ r.status \notin {"completed", "failed"}
          /\ status' = r
    /\ i' = i + 1
    /\ pc' = "loop"
    /\ UNCHANGED <<script, prompt, model, evmKey, solanaKey, fetchWithPayment,
                   paymentNetwork, res, taskId, pollIntervalMs, maxPolls, timeoutLabel,
                   exitCode, outcome, errText, queuedExplorer, reportVideo,
                   reportExplorer, sleeps, sleptMs>>

\* after the loop: console.error(`Timed out after ${timeoutLabel}`); process.exit(1);
LoopExhausted ==
    /\ pc = "loop"
    /\ ~(i < maxPolls)
    /\ Exit(1, "timeout", timeoutLabel)
    /\ UNCHANGED <<script, prompt, model, evmKey, solanaKey, fetchWithPayment,
                   paymentNetwork, res, taskId, pollIntervalMs, maxPolls, timeoutLabel,
                   i, status, queuedExplorer, reportVideo, reportExplorer, paidCalls,
                   polls, sleeps, sleptMs>>

(***************************************************************************)
(* x402-image.mjs: one paid POST to /mcp, then the result is printed and   *)
(* the script runs off its end (exit code 0).                              *)
(***************************************************************************)
\* const res = await fetchWithPayment(`${API_BASE}/mcp`, {method: 'POST', ...})
ImageSubmit ==
    /\ pc = "submit" /\ script = "image"
    /\ paidCalls' = paidCalls + 1
    /\ \E r \in ImageResponses : res' = r
    /\ pc' = "created"
    /\ UNCHANGED <<script, prompt, model, evmKey, solanaKey, fetchWithPayment,
                   paymentNetwork, taskId, pollIntervalMs, maxPolls, timeoutLabel, i,
                   status, exitCode, outcome, errText, queuedExplorer, reportVideo,
                   reportExplorer, polls, sleeps, sleptMs>>

ImageSubmitThrows ==
    /\ pc = "submit" /\ script = "image"
    /\ paidCalls' = paidCalls + 1
    /\ Uncaught("fetch failed")
    /\ UNCHANGED <<script, prompt, model, evmKey, solanaKey, fetchWithPayment,
                   paymentNetwork, res, taskId, pollIntervalMs, maxPolls, timeoutLabel,
                   i, status, queuedExplorer, reportVideo, reportExplorer, polls,
                   sleeps, sleptMs>>

\* await res.json() rejects, or data.result throws on a null body
ImageDecodeFails ==
    /\ pc = "created" /\ script = "image"
    /\ res.kind \in {"nonjson", "null"}
    /\ Uncaught("Unexpected token / TypeError")
    /\ UNCHANGED <<script, prompt, model, evmKey, solanaKey, fetchWithPayment,
                   paymentNetwork, res, taskId, pollIntervalMs, maxPolls, timeoutLabel,
                   i, status, queuedExplorer, reportVideo, reportExplorer, paidCalls,
                   polls, sleeps, sleptMs>>

\* if (data.result?.content) { print each item } else { console.log(JSON.stringify(data)) }
\* res.status is never read; nothing is written to stderr; the script ends
ImagePrint ==
    /\ pc = "created" /\ script = "image"
    /\ res.kind = "json"
    /\ Exit(0, IF res.content THEN "image-printed" ELSE "image-raw-json", "")
    /\ UNCHANGED <<script, prompt, model, evmKey, solanaKey, fetchWithPayment,
                   paymentNetwork, res, taskId, pollIntervalMs, maxPolls, timeoutLabel,
                   i, status, queuedExplorer, reportVideo, reportExplorer, paidCalls,
                   polls, sleeps, sleptMs>>

Next ==
    \/ CheckArgs \/ CheckKeys \/ SetupDexter \/ SetupEvm \/ CheckClient
    \/ Submit \/ SubmitThrows
    \/ SubmissionDecodeFails \/ SubmissionRejected \/ SubmissionAccepted
    \/ PollSleep \/ PollThrows \/ PollCompleted \/ PollFailed \/ PollProgress
    \/ LoopExhausted
    \/ ImageCheckArgs \/ ImageCheckKeys \/ ImageSetupDexter \/ ImageSetupEvm
    \/ ImageCheckClient
    \/ ImageSubmit \/ ImageSubmitThrows \/ ImageDecodeFails \/ ImagePrint

Spec == Init /\ [][Next]_vars

\* every awaited call eventually returns or throws, and the script then runs on
FairSpec == Spec /\ WF_vars(Next)

(***************************************************************************)
(* Properties.                                                             *)
(***************************************************************************)
Exited == pc = "exited"
Generate == script = "generate"

InputErrors == {"usage", "no-key", "no-client-init", "no-client"}

\* the run passed the submission check and entered the polling phase
Polling == Generate /\ (pc \in {"loop", "get"} \/ (Exited /\ polls >= 1))

\* C1: under fair scheduling every run of the generation client exits, with the
\* success report or with one of the failures, and each poll in progress moves
\* the loop counter one step closer to maxPolls.
C1_Terminates ==
    /\ <>Exited
    /\ [](Exited /\ Generate =>
            /\ outcome \in InputErrors \cup
                   {"submission-failed", "completed", "failed", "timeout", "uncaught"}
            /\ (outcome = "completed") = (exitCode = 0)
            /\ exitCode \in {0, 1})
    /\ [][pc = "get" /\ pc' = "loop" => i' = i + 1 /\ i' <= maxPolls]_vars

C1_Witness == Exited /\ Generate /\ outcome = "timeout" /\ i = maxPolls /\ maxPolls > 0

\* C2: the client polls if and only if the creation response is a 202 whose JSON
\* body carries a non-empty taskId; any other response ends the run with exit
\* code 1 before any status poll.
C2_SubmissionGate ==
    (Generate /\ res # NoRes /\ pc # "created") =>
        IF res.kind = "json" /\ res.code = 202 /\ res.taskId # NoField /\ res.taskId # ""
        THEN pc \in {"loop", "get"} \/ (Exited /\ polls >= 1)
        ELSE /\ Exited
             /\ exitCode = 1
             /\ outcome \in {"submission-failed", "uncaught"}
             /\ polls = 0
             /\ sleeps = 0

C2_Witness ==
    /\ Exited /\ outcome = "submission-failed" /\ polls = 0
    /\ res.kind = "json" /\ res.code = 202 /\ res.taskId = NoField

\* C3: a poll that reads status 'completed' ends the run on that iteration with
\* exit code 0, and the reported video is the response's result.generation.video.
C3_CompletedEndsLoop ==
    /\ (status.status = "completed" =>
            /\ Exited
            /\ exitCode = 0
            /\ outcome = "completed"
            /\ polls = i + 1
            /\ sleeps = polls
            /\ reportVideo = (IF status.hasResult THEN status.video ELSE "undefined"))
    /\ (outcome = "completed" => status.status = "completed")

C3_Witness ==
    /\ Exited /\ outcome = "completed" /\ polls = 2 /\ i + 2 < maxPolls
    /\ reportVideo = "https://x/video.mp4"

\* C4: a poll that reads status 'failed' ends the run on that iteration with
\* exit code 1, and the failure report carries the response's error text.
C4_FailedEndsLoop ==
    /\ (status.status = "failed" =>
            /\ Exited
            /\ exitCode = 1
            /\ outcome = "failed"
            /\ polls = i + 1
            /\ sleeps = polls
            /\ (status.error # NoField => errText = status.error))
    /\ (outcome = "failed" => status.status = "failed")

C4_Witness ==
    Exited /\ outcome = "failed" /\ polls = 3 /\ errText = "GPU out of memory"

\* C5: when no poll reads 'completed' or 'failed' the client polls exactly 120
\* times and then reports the timeout with exit code 1 and the policy's label;
\* a status in progress (recognized or not, or absent) never ends the run itself.
C5_TimeoutAfterMaxPolls ==
    /\ polls <= 120
    /\ (pc = "loop" => polls = i)
    /\ (pc = "get" => polls = i /\ i < 120)
    /\ (outcome = "timeout" =>
            /\ Exited
            /\ exitCode = 1
            /\ polls = 120
            /\ sleeps = 120
            /\ errText = timeoutLabel
            /\ errText \in {"10 minutes", "20 minutes"})
    /\ (Exited /\ status.kind = "json" /\ status.status \notin {"completed", "failed"} =>
            outcome = "timeout")

C5_Witness ==
    Exited /\ outcome = "timeout" /\ polls = 120 /\ status.status = "processing"

\* the slow tokens matched as the code matches them: prefix of a list entry, or
\* the substring 'kling'
MatchesSlowToken(mdl) == StartsWith(mdl, FalKlingO3) \/ Includes(mdl, Kling)

PolicyIs(ms, n, label) == pollIntervalMs = ms /\ maxPolls = n /\ timeoutLabel = label

\* C6 as stated: members of the slow list get 10,000 ms / 120 / '20 minutes',
\* every other model identifier gets 5,000 ms / 120 / '10 minutes'.
C6_Original ==
    Polling =>
        IF model \in SLOW_MODELS
        THEN PolicyIs(10000, 120, "20 minutes")
        ELSE PolicyIs(5000, 120, "10 minutes")

\* C6 amended: a model identifier that starts with a slow-list entry or contains
\* 'kling' gets 10,000 ms / 120 / '20 minutes', every other one 5,000 ms / 120 /
\* '10 minutes'; the policy is set before the first poll, never changes, and
\* every sleep lasts the policy's interval.
C6_Policy ==
    /\ [](Polling =>
            IF MatchesSlowToken(model)
            THEN PolicyIs(10000, 120, "20 minutes")
            ELSE PolicyIs(5000, 120, "10 minutes"))
    /\ [](sleptMs = sleeps * pollIntervalMs)
    /\ [][pollIntervalMs # 0 =>
            UNCHANGED <<model, pollIntervalMs, maxPolls, timeoutLabel>>]_vars

C6_Witness ==
    /\ Polling /\ model = KlingV2 /\ model \notin SLOW_MODELS
    /\ PolicyIs(10000, 120, "20 minutes") /\ sleeps = 2

\* the base-58, 80-90 character pattern
IsBase58Sig(tx) ==
    Len(tx) \in 80..90 /\ \A k \in 1..Len(tx) : tx[k] \in Base58Alphabet

\* the three cases of the derivation
Derived(network, tx) ==
    CASE network = "solana" -> Solscan(tx)
      [] network = "base" /\ ~IsBase58Sig(tx) -> Basescan(tx)
      [] network = "base" /\ IsBase58Sig(tx) -> Solscan(tx)
      [] OTHER -> NoLine

\* C7 as stated: at both places the explorer URI shown for a transaction
\* reference is determined by the payment network and the reference alone.
C7_Original ==
    /\ (Polling /\ res.tx # <<>> => queuedExplorer = Derived(paymentNetwork, res.tx))
    /\ (outcome = "completed" /\ status.tx # <<>> =>
            reportExplorer = Derived(paymentNetwork, status.tx))

ShownFor(explorer, tx) ==
    IF tx = <<>> THEN NoLine
    ELSE IF explorer # NoField /\ explorer # "" THEN Verbatim(explorer)
    ELSE Derived(paymentNetwork, tx)

\* C7 amended: at both places, a response that carries a non-empty explorer field
\* has that field shown as is; otherwise the URI is derived from the payment
\* network and the reference by the three cases (pattern wins over network).
C7_Explorer ==
    /\ (Polling => queuedExplorer = ShownFor(res.explorer, res.tx))
    /\ (outcome = "completed" => reportExplorer = ShownFor(status.explorer, status.tx))
    /\ (Generate /\ ~Polling => queuedExplorer = NoLine)
    /\ (outcome # "completed" => reportExplorer = NoLine)

C7_Witness ==
    /\ outcome = "completed" /\ paymentNetwork = "base"
    /\ queuedExplorer = Basescan(EvmHash)
    /\ reportExplorer = Solscan(Sig80)

\* the remote job of the run ended successfully
RemoteSuccess ==
    \/ Generate /\ status.kind = "json" /\ status.status = "completed"
    \/ script = "image" /\ res.kind = "json" /\ res.code = 200 /\ res.content

\* C8: a generation script exits 0 only when the remote job completed
\* successfully; every other run ends with an error report and a non-zero code.
C8_ExitCodeContract ==
    Exited =>
        /\ (exitCode = 0) = RemoteSuccess
        /\ (exitCode # 0 => errText # "")

\* C9: a run that reaches the submission step calls the payment-capable function
\* exactly once, before any poll, and never again; polls are plain GETs, each
\* preceded by one sleep of the policy's interval.
C9_PayOnce ==
    /\ paidCalls <= 1
    /\ (pc \in {"created", "loop", "get"} => paidCalls = 1)
    /\ (Exited /\ outcome \notin InputErrors => paidCalls = 1)
    /\ (polls > 0 => paidCalls = 1)
    /\ (pc = "get" => sleeps = polls + 1)
    /\ (pc # "get" => sleeps = polls)
    /\ (Polling => pollIntervalMs > 0 /\ sleptMs = sleeps * pollIntervalMs)

C9_Witness == Exited /\ paidCalls = 1 /\ polls = 120 /\ sleeps = 120

\* C10: a missing prompt, missing credentials or a payment client that could not
\* be initialised end the run with exit code 1 before any network request.
C10_InputErrorsFailFast ==
    /\ (prompt = "" \/ (~evmKey /\ ~solanaKey) \/ ~fetchWithPayment =>
            paidCalls = 0 /\ polls = 0 /\ res = NoRes /\ pc # "submit")
    /\ (Exited /\ (prompt = "" \/ (~evmKey /\ ~solanaKey) \/ ~fetchWithPayment) =>
            exitCode = 1 /\ outcome \in InputErrors)
    /\ (outcome \in InputErrors => Exited /\ exitCode = 1 /\ paidCalls = 0 /\ polls = 0)

C10_Witness ==
    Exited /\ outcome = "no-client" /\ solanaKey /\ ~evmKey /\ prompt # ""

====
